---- MODULE Spec2Model ----
(***************************************************************************)
(* RESCO MultiSignal environment (resco_benchmark/multi_signal.py): the     *)
(* reset / step / close handlers of one or two environment instances that   *)
(* share the process-wide traci binding.  Every handler is one atomic       *)
(* action; the order of the simulator and controller calls it makes is      *)
(* recorded in the event list of the last call.                             *)
(***************************************************************************)
EXTENDS Integers, Sequences, FiniteSets, TLC

VARIABLES cfg, insts, ts_order, run, ts_starter, signal_ids, signals, metrics,
          sumo, files, connections, currentLabel, taken, last, agent

vars == <<cfg, insts, ts_order, run, ts_starter, signal_ids, signals, metrics,
          sumo, files, connections, currentLabel, taken, last, agent>>

\* the state of the environment: everything but the policies
envVars == <<cfg, insts, ts_order, run, ts_starter, signal_ids, signals, metrics,
             sumo, files, connections, currentLabel, taken, last>>

(***************************************************************************)
(* Bounds of the exploration.                                               *)
(***************************************************************************)
MaxRun == 2
MaxTotal == 3
MaxRunLong == 31
MaxStepRunLong == 1
MaxTotalLong == 1
MaxRunTwo == 2
MaxTotalTwo == 1
MaxRunAgent == 1
MaxCalls == 4

(***************************************************************************)
(* Configuration.                                                           *)
(***************************************************************************)
AllEnvs == {"e1", "e2"}
NoLabel == "none"

\* lights / trafficlight.getIDList(): the controllable intersections, in order
all_ts_ids == <<"A", "B">>
IDs == {all_ts_ids[i] : i \in 1..Len(all_ts_ids)}

\* self.phases: number of green phases of every intersection's phase table
phases == [ts \in IDs |-> IF ts = "A" THEN 1 ELSE 2]

\* lanes sensed by every controller
Lanes == {1, 2}

\* the staggered activation period of reset
StaggerPeriod == 30

libsumo == FALSE

\* Constructor arguments.  tick / unit give the simulator's own step size:
\* one simulationStep advances simulated time by tick/unit time units, and
\* all simulated times are kept as integers in 1/unit time units.
Configs ==
  { [step_length |-> 10, yellow_length |-> 4, step_ratio |-> 1, end_time |-> 20,
     warmup |-> 0, tick |-> 1, unit |-> 1],
    [step_length |-> 2, yellow_length |-> 1, step_ratio |-> 2, end_time |-> 3,
     warmup |-> 0, tick |-> 1, unit |-> 2],
    [step_length |-> 2, yellow_length |-> 0, step_ratio |-> 1, end_time |-> 4,
     warmup |-> 1, tick |-> 1, unit |-> 1],
    [step_length |-> 1, yellow_length |-> 0, step_ratio |-> 1, end_time |-> 1,
     warmup |-> 0, tick |-> 1, unit |-> 2] }

\* iteration orders the observation mapping of state_fn may have
Orders == { <<"A", "B">>, <<"B", "A">> }

\* actions a caller may pass: mappings (possibly partial) and sequences
\* (an index equal to the table length is the smallest invalid one)
ActVals == UNION { 0..phases[ts] : ts \in IDs }
DictActs == UNION { {a \in [D -> ActVals] : \A ts \in D : a[ts] <= phases[ts]} :
                    D \in SUBSET IDs }
SeqActs == UNION { [1..n -> ActVals] : n \in 0..Len(all_ts_ids) }

Ev(k, ts, v) == [k |-> k, ts |-> ts, v |-> v]

Ok(m) == m.exc = "none"
Raise(m, x) == [m EXCEPT !.exc = x]
Log(m, e) == [m EXCEPT !.ev = Append(@, e)]

(***************************************************************************)
(* The traci binding: the registry of open sessions by label and the        *)
(* process-wide current session.                                            *)
(***************************************************************************)
Drop(f, x) == [l \in DOMAIN f \ {x} |-> f[l]]
Put(f, x, v) == [l \in DOMAIN f \cup {x} |-> IF l = x THEN v ELSE f[l]]

\* traci.switch(label)
traci_switch(m, label) ==
  IF ~Ok(m) THEN m
  ELSE IF label \notin DOMAIN m.conns THEN Raise(m, "TraCIException")
  ELSE Log([m EXCEPT !.cur = label], Ev("switch", label, 0))

\* (mutant) the current session is left as it is
SwitchOmitted(m, label) == m

\* if not self.libsumo: traci.switch(self.connection_name)
SwitchToOwn(m, label) == IF libsumo THEN m ELSE traci_switch(m, label)

\* traci.close(): closes the current session
traci_close(m) ==
  IF ~Ok(m) THEN m
  ELSE IF m.cur = NoLabel THEN Raise(m, "FatalTraCIError")
  ELSE Log([m EXCEPT !.conns = Drop(@, m.cur), !.cur = NoLabel],
           Ev("close", m.cur, 0))

\* traci.start(cmd, label=...); self.sumo = traci.getConnection(label)
traci_start(m, label) ==
  IF ~Ok(m) THEN m
  ELSE IF label \in DOMAIN m.conns THEN Raise(m, "TraCIException")
  ELSE Log([m EXCEPT !.conns = Put(@, label, [sid |-> m.run, time |-> 0]),
                     !.cur = label,
                     !.sumo = [label |-> label, sid |-> m.run]],
           Ev("start", label, 0))

\* a connection object answers only while its session is open
IsOpen(m) ==
  /\ m.sumo.label \in DOMAIN m.conns
  /\ m.conns[m.sumo.label].sid = m.sumo.sid

\* self.sumo.simulation.getTime()
getTime(m) == m.conns[m.sumo.label].time

\* self.sumo.simulationStep()
simulationStep(m) ==
  IF ~Ok(m) THEN m
  ELSE IF ~IsOpen(m) THEN Raise(m, "FatalTraCIError")
  ELSE Log([m EXCEPT !.conns[m.sumo.label].time = @ + cfg.tick],
           Ev("tick", m.sumo.label, 0))

RECURSIVE Ticks(_, _)
Ticks(m, n) == IF n <= 0 THEN m ELSE Ticks(simulationStep(m), n - 1)

\* (mutant) one simulator tick per decision tick, whatever step_ratio is
step_sim_once(m) == Ticks(m, 1)

\* for _ in range(self.step_ratio): self.sumo.simulationStep()
step_sim(m) == Ticks(m, cfg.step_ratio)

RECURSIVE StepSimLoop(_, _)
StepSimLoop(m, n) == IF n <= 0 THEN m ELSE StepSimLoop(step_sim(m), n - 1)

(***************************************************************************)
(* SignalController (traffic_signal.Signal), one per intersection.          *)
(***************************************************************************)
\* lane sensor reading of the simulator at time t
Sense(ts, lane, t) == (t + lane + (IF ts = "A" THEN 0 ELSE 1)) % 3

\* Signal(map_name, sumo, ts, yellow_length, phases[ts])
NewSignal == [phase |-> 0, next_phase |-> 0, full_observation |-> [l \in Lanes |-> 0]]

\* Signal.prep_phase(new_phase): validate the index, latch it, apply nothing
prep_phase(m, ts, new_phase) ==
  IF ~Ok(m) THEN m
  ELSE IF new_phase \notin 0..(phases[ts] - 1) THEN Raise(m, "ProtocolError")
  ELSE Log([m EXCEPT !.sig[ts].next_phase = new_phase], Ev("prep", ts, new_phase))

\* Signal.set_phase(): commit the latched phase on the simulator
set_phase(m, ts) ==
  IF ~Ok(m) THEN m
  ELSE IF ~IsOpen(m) THEN Raise(m, "FatalTraCIError")
  ELSE Log([m EXCEPT !.sig[ts].phase = m.sig[ts].next_phase],
           Ev("set", ts, m.sig[ts].next_phase))

\* Signal.observe(step_length, max_distance): a fresh observation window
observe(m, ts) ==
  IF ~Ok(m) THEN m
  ELSE IF ~IsOpen(m) THEN Raise(m, "FatalTraCIError")
  ELSE Log([m EXCEPT !.sig[ts].full_observation =
                       [l \in Lanes |-> Sense(ts, l, getTime(m))]],
           Ev("observe", ts, 0))

\* state_fn(signals) / reward_fn(signals): pure functions of the controllers
state_fn(sig) ==
  [ts \in DOMAIN sig |->
     <<sig[ts].full_observation[1], sig[ts].full_observation[2], sig[ts].phase>>]
reward_fn(sig) ==
  [ts \in DOMAIN sig |-> 0 - (sig[ts].full_observation[1] + sig[ts].full_observation[2])]

(***************************************************************************)
(* MultiSignal: metrics.                                                    *)
(***************************************************************************)
RECURSIVE SumQ(_, _)
SumQ(fo, L) == IF L = {} THEN 0
               ELSE LET l == CHOOSE x \in L : TRUE IN fo[l] + SumQ(fo, L \ {l})
RECURSIVE MaxQ(_, _)
MaxQ(fo, L) == IF L = {} THEN 0
               ELSE LET l == CHOOSE x \in L : TRUE
                        r == MaxQ(fo, L \ {l})
                    IN IF fo[l] > r THEN fo[l] ELSE r

\* calc_metrics(rewards): append one StepMetric
calc_metrics(m, rewards) ==
  IF ~Ok(m) THEN m
  ELSE IF ~IsOpen(m) THEN Raise(m, "FatalTraCIError")
  ELSE [m EXCEPT !.metrics = Append(@,
          [step |-> getTime(m),
           reward |-> rewards,
           max_queues |-> [ts \in DOMAIN m.sig |-> MaxQ(m.sig[ts].full_observation, Lanes)],
           queue_lengths |-> [ts \in DOMAIN m.sig |-> SumQ(m.sig[ts].full_observation, Lanes)]])]

\* one line of the csv file: the four fields in the order they are written
CsvLine(line) == <<line.step, line.reward, line.max_queues, line.queue_lengths>>

\* save_metrics(): (over)write metrics_<run>.csv with one line per StepMetric
save_metrics(m) ==
  IF ~Ok(m) THEN m
  ELSE Log([m EXCEPT !.files = Put(@, m.run,
                         [i \in 1..Len(m.metrics) |-> CsvLine(m.metrics[i])])],
           Ev("save", "", m.run))

(***************************************************************************)
(* MultiSignal.reset                                                        *)
(***************************************************************************)
\* (mutant) the list follows the order of all_ts_ids, not ts_order
to_list_by_id(mapping, order) == [i \in 1..Len(all_ts_ids) |-> mapping[all_ts_ids[i]]]

\* the list the gymma convention returns for a mapping
to_list(mapping, order) == [i \in 1..Len(order) |-> mapping[order[i]]]

NoRet == [obs |-> <<>>, rew |-> <<>>, done |-> FALSE, eps |-> 0]

\* if self.run != 0: switch; close; save_metrics
reset_end_previous(m, label) ==
  IF m.run # 0 THEN save_metrics(traci_close(SwitchToOwn(m, label))) ELSE m

\* (mutant) the episode index is not advanced
reset_begin_same_run(m) ==
  IF ~Ok(m) THEN m ELSE [m EXCEPT !.metrics = <<>>]

\* (mutant) the metric sequence is not emptied for the new episode
reset_begin_keep(m) ==
  IF ~Ok(m) THEN m ELSE [m EXCEPT !.run = @ + 1]

\* self.metrics = []; self.run += 1
reset_begin(m) ==
  IF ~Ok(m) THEN m ELSE [m EXCEPT !.metrics = <<>>, !.run = @ + 1]

\* traci.start(...); for _ in range(self.warmup): self.step_sim()
reset_start(m, label) == StepSimLoop(traci_start(m, label), cfg.warmup)

\* (mutant) the counter grows on every period, all active or not
reset_ts_starter_unbounded(n, starter) ==
  IF n % StaggerPeriod = 0 THEN starter + 1 ELSE starter

\* the staggered activation counter
reset_ts_starter(n, starter) ==
  IF n % StaggerPeriod = 0 /\ starter < Len(all_ts_ids) THEN starter + 1 ELSE starter

\* (mutant) only the first intersection is put under control
reset_activate_one(m) ==
  IF ~Ok(m) THEN m ELSE [m EXCEPT !.signal_ids = SubSeq(all_ts_ids, 1, 1)]

\* self.signal_ids = all_ts_ids[:ts_starter]
reset_activate(m) ==
  IF ~Ok(m) THEN m
  ELSE LET s == reset_ts_starter(m.run, m.ts_starter)
           n == Len(all_ts_ids)
       IN IF s <= n
          THEN [m EXCEPT !.ts_starter = s, !.signal_ids = SubSeq(all_ts_ids, 1, s)]
          ELSE Raise([m EXCEPT !.ts_starter = s, !.signal_ids = all_ts_ids],
                     "IndexError")

construct(m, ts) == IF ~Ok(m) THEN m ELSE [m EXCEPT !.sig[ts] = NewSignal]

RECURSIVE ConstructAll(_, _, _)
\* for ts in ids[i..]: self.signals[ts] = Signal(...)
ConstructAll(m, ids, i) ==
  IF i > Len(ids) THEN m ELSE ConstructAll(construct(m, ids[i]), ids, i + 1)

RECURSIVE ObserveAll(_, _, _)
\* for ts in ids[i..]: self.signals[ts].observe(...)
ObserveAll(m, ids, i) ==
  IF i > Len(ids) THEN m ELSE ObserveAll(observe(m, ids[i]), ids, i + 1)

\* construct a controller for every active intersection, then prime each
reset_signals(m) == ObserveAll(ConstructAll(m, m.signal_ids, 1), m.signal_ids, 1)

reset_return(m, order) ==
  IF ~Ok(m) THEN m
  ELSE [m EXCEPT !.ret = [NoRet EXCEPT !.obs =
          IF cfg.gymma THEN to_list(state_fn(m.sig), order) ELSE state_fn(m.sig)]]

reset(m, label, order) ==
  reset_return(reset_signals(reset_activate(reset_start(
      reset_begin(reset_end_previous(m, label)), label))), order)

(***************************************************************************)
(* MultiSignal.step                                                         *)
(***************************************************************************)
\* gymma: dict_act[ts] = act[i] for i, ts in enumerate(self.ts_order)
to_dict(seq, order) ==
  [ts \in {order[i] : i \in 1..Len(order)} |->
     seq[CHOOSE i \in 1..Len(order) : order[i] = ts]]

\* (mutant) a sequence shorter than ts_order is filled up with phase 0
step_convert_padded(m, order) ==
  IF ~cfg.gymma THEN m
  ELSE [m EXCEPT !.act = to_dict([i \in 1..Len(order) |->
                            IF i <= Len(m.act) THEN m.act[i] ELSE 0], order)]

\* if self.gymma: dict_act[ts] = act[i] for i, ts in enumerate(self.ts_order)
step_convert(m, order) ==
  IF ~cfg.gymma THEN m
  ELSE IF Len(m.act) < Len(order) THEN Raise(m, "IndexError")
  ELSE [m EXCEPT !.act = to_dict(m.act, order)]

\* (mutant) a missing entry is replaced by phase 0
prep_one_default(m, ts) ==
  IF ~Ok(m) THEN m
  ELSE prep_phase(m, ts, IF ts \in DOMAIN m.act THEN m.act[ts] ELSE 0)

\* self.signals[signal].prep_phase(act[signal])
prep_one(m, ts) ==
  IF ~Ok(m) THEN m
  ELSE IF ts \notin DOMAIN m.act THEN Raise(m, "KeyError")
  ELSE prep_phase(m, ts, m.act[ts])

RECURSIVE PrepAll(_, _, _)
PrepAll(m, ids, i) ==
  IF i > Len(ids) THEN m ELSE PrepAll(prep_one(m, ids[i]), ids, i + 1)

\* for signal in self.signals: ...   (the keys are all_ts_ids, in that order)
step_prep(m) == PrepAll(m, all_ts_ids, 1)

\* (mutant) the commit is not delayed by the transition interval
step_yellow_skipped(m) == m

\* for step in range(self.yellow_length): self.step_sim()
step_yellow(m) == StepSimLoop(m, cfg.yellow_length)

RECURSIVE SetAll(_, _, _)
SetAll(m, ids, i) ==
  IF i > Len(ids) THEN m ELSE SetAll(set_phase(m, ids[i]), ids, i + 1)

\* for signal in self.signal_ids: self.signals[signal].set_phase()
step_commit(m) == SetAll(m, m.signal_ids, 1)

\* (mutant) the green interval lasts the whole decision window
step_green_full(m) == StepSimLoop(m, cfg.step_length)

\* for step in range(self.step_length - self.yellow_length): self.step_sim()
step_green(m) == StepSimLoop(m, cfg.step_length - cfg.yellow_length)

\* for signal in self.signal_ids: self.signals[signal].observe(...)
step_observe(m) == ObserveAll(m, m.signal_ids, 1)

\* (mutant) the episode ends only strictly after end_time
step_done_strict(m) == getTime(m) > cfg.end_time * cfg.unit

\* done = self.sumo.simulation.getTime() >= self.end_time
step_done(m) == getTime(m) >= cfg.end_time * cfg.unit

step_return(m, order) ==
  IF ~Ok(m) THEN m
  ELSE LET observations == state_fn(m.sig)
           rewards == reward_fn(m.sig)
           m1 == calc_metrics(m, rewards)
       IN IF ~Ok(m1) THEN m1
          ELSE [m1 EXCEPT !.ret =
                  IF cfg.gymma
                  THEN [obs |-> to_list(observations, order),
                        rew |-> to_list(rewards, order),
                        done |-> <<step_done(m1)>>, eps |-> m1.run]
                  ELSE [obs |-> observations, rew |-> rewards,
                        done |-> step_done(m1), eps |-> m1.run]]

\* (mutant) the actions are sent to the controllers after the yellow ticks
step_late_prep(m, order) ==
  step_return(step_observe(step_green(step_commit(step_prep(
      step_yellow(step_convert(m, order)))))), order)

step(m, order) ==
  step_return(step_observe(step_green(step_commit(step_yellow(
      step_prep(step_convert(m, order)))))), order)

(***************************************************************************)
(* MultiSignal.close                                                        *)
(***************************************************************************)
close(m, label) == save_metrics(traci_close(SwitchToOwn(m, label)))

(***************************************************************************)
(* The policies: FixedPhaseAgent (agents/fix_time.py) and GraphSolverAgent  *)
(* (agents/graphAgent.py), both constructed from the map's phase_pairs.     *)
(* Python indices are 0-based: pair p of phase_pairs is phase_pairs[p + 1]. *)
(***************************************************************************)
\* signal_configs[map_name]['phase_pairs']: pairs of lane-group indices
PairTables == {<< <<0, 1>>, <<2, 3>> >>, << <<0, 1>>, <<2, 3>>, <<0, 2>> >>}

\* observation vectors (queue lengths per lane group), one per intersection
ObsVecs == {<<1, 0, 0, 1>>, <<0, 1, 1, 1>>, <<2, 0, 1, 1>>, <<0, 0, 0, 0>>}
\* the observations of one intersection, or of two
ObsLists ==
  {<<o>> : o \in ObsVecs} \cup
  {<<o, <<1, 0, 0, 1>> >> : o \in {<<2, 0, 1, 1>>, <<0, 0, 0, 0>>}}

\* an optional argument: None, or a value
None == [given |-> FALSE, v |-> <<>>]
Some(v) == [given |-> TRUE, v |-> v]
\* valid_acts: per intersection, the action indices it may choose from
ValidOpts ==
  {None, Some(<< <<1, 0>>, <<>> >>), Some(<< <<0>> >>), Some(<< <<2, 1>>, <<1>> >>)}

\* best_action = None
NoAction == -1

\* the two policy objects after construction from phase_pairs, no call made
NewAgent(pairs) ==
  [phase_pairs |-> pairs, current_phase |-> 0,
   graph |-> [i \in 1..Len(pairs) |-> 1],
   calls |-> 0, hist |-> <<>>,
   op |-> "init", observations |-> None, valid_acts |-> None,
   centrality |-> <<>>, out |-> <<>>, exc |-> "none"]
\* no policy is in use
NoAgent == NewAgent(<<>>)

\* (mutant) the phase counter is not wrapped around
next_phase_unwrapped(current_phase, n) == current_phase + 1

\* (self.current_phase + 1) % len(self.phase_pairs)
next_phase(current_phase, n) == (current_phase + 1) % n

\* FixedPhaseAgent.act(observations, valid_acts)
fixed_act(a, observations, valid_acts) ==
  LET n == Len(a.phase_pairs)
      actions == [i \in 1..n |-> a.current_phase]
  IN [a EXCEPT !.current_phase = next_phase(a.current_phase, n),
               !.out = actions, !.exc = "none",
               !.calls = @ + 1, !.hist = Append(@, actions),
               !.op = "fixed", !.observations = observations,
               !.valid_acts = valid_acts, !.centrality = <<>>]

RECURSIVE SumVec(_, _)
\* sum(observation[i..])
SumVec(o, i) == IF i > Len(o) THEN 0 ELSE o[i] + SumVec(o, i + 1)

\* GraphSolverAgent._update_graph_weights: the weight of every edge leaving
\* node i becomes sum(observations[i]); nodes without observation keep theirs
update_graph_weights(graph, observations) ==
  [i \in 1..Len(graph) |->
     IF i <= Len(observations) THEN SumVec(observations[i], 1) ELSE graph[i]]

\* centrality values are kept as multiples of 1 / CentralityUnit
CentralityUnit == 2

\* nx.betweenness_centrality(self.graph, weight='weight').get(i, 0): in the
\* complete digraph a path through a third node is a shortest path only if
\* that node's edges weigh 0; otherwise every betweenness is 0.  With weights
\* of 0 the value is some number in [0, 1].
Centralities(graph, i) ==
  IF \/ i > Len(graph)
     \/ Len(graph) <= 2
     \/ \A k \in 1..Len(graph) : graph[k] > 0
  THEN {0}
  ELSE 0..CentralityUnit

\* available_acts = valid_acts[i] if valid_acts is not None
\*                  else range(len(self.phase_pairs))
available_acts(pairs, valid_acts, i) ==
  IF valid_acts.given THEN valid_acts.v[i] ELSE [k \in 1..Len(pairs) |-> k - 1]

\* score = (observation[pair[0]] + observation[pair[1]]) * (1 + centrality),
\* in multiples of 1 / CentralityUnit
score(observation, pair, c) ==
  (observation[pair[1] + 1] + observation[pair[2] + 1]) * (CentralityUnit + c)

\* (mutant) a later action replaces an equally good earlier one
better_or_equal(s, best_score) == s >= best_score

\* if score > best_score
better(s, best_score) == s > best_score

RECURSIVE best_loop(_, _, _, _, _, _)
\* for act_idx in available_acts[j..]: keep the best (action, score) so far;
\* best_score starts at -inf, which every score exceeds
best_loop(pairs, observation, c, avail, j, best) ==
  IF j > Len(avail) THEN best
  ELSE LET s == score(observation, pairs[avail[j] + 1], c)
       IN best_loop(pairs, observation, c, avail, j + 1,
            IF best.action = NoAction \/ better(s, best.score)
            THEN [action |-> avail[j], score |-> s]
            ELSE best)

\* the i-th intersection of GraphSolverAgent.act: its action, or the error of
\* a subscript out of range (valid_acts[i], self.phase_pairs[act_idx])
act_one(pairs, observations, valid_acts, cent, i) ==
  IF valid_acts.given /\ i > Len(valid_acts.v)
  THEN [exc |-> "IndexError", action |-> NoAction]
  ELSE LET avail == available_acts(pairs, valid_acts, i)
       IN IF \E j \in 1..Len(avail) : avail[j] >= Len(pairs)
          THEN [exc |-> "IndexError", action |-> NoAction]
          ELSE LET best == best_loop(pairs, observations[i], cent[i], avail, 1,
                                     [action |-> NoAction, score |-> 0])
               IN [exc |-> "none",
                   action |-> IF best.action # NoAction THEN best.action ELSE 0]

\* GraphSolverAgent.act(observations, valid_acts), cent the centralities that
\* networkx returns for the updated graph
graph_act(a, observations, valid_acts, cent) ==
  LET r == [i \in 1..Len(observations.v) |->
              act_one(a.phase_pairs, observations.v, valid_acts, cent, i)]
      failed == \E i \in 1..Len(observations.v) : r[i].exc # "none"
  IN [a EXCEPT !.graph = update_graph_weights(a.graph, observations.v),
               !.out = IF failed THEN <<>>
                       ELSE [i \in 1..Len(observations.v) |-> r[i].action],
               !.exc = IF failed THEN "IndexError" ELSE "none",
               !.op = "graph", !.observations = observations,
               !.valid_acts = valid_acts, !.centrality = cent]

(***************************************************************************)
(* State machine.                                                           *)
(***************************************************************************)
\* self.connection_name: the session label of an instance
Label(e) == e

\* the instance's fields and the traci binding, as one call sees them
Self(e, act) ==
  [run |-> run[e], ts_starter |-> ts_starter[e], signal_ids |-> signal_ids[e],
   sig |-> signals[e], metrics |-> metrics[e], sumo |-> sumo[e], files |-> files[e],
   conns |-> connections, cur |-> currentLabel,
   act |-> act, ev |-> <<>>, exc |-> "none", ret |-> NoRet]

Store(e, op, act, m) ==
  /\ run' = [run EXCEPT ![e] = m.run]
  /\ ts_starter' = [ts_starter EXCEPT ![e] = m.ts_starter]
  /\ signal_ids' = [signal_ids EXCEPT ![e] = m.signal_ids]
  /\ signals' = [signals EXCEPT ![e] = m.sig]
  /\ metrics' = [metrics EXCEPT ![e] = m.metrics]
  /\ sumo' = [sumo EXCEPT ![e] = m.sumo]
  /\ files' = [files EXCEPT ![e] = m.files]
  /\ connections' = m.conns
  /\ currentLabel' = m.cur
  /\ last' = [env |-> e, op |-> op, act |-> act, ev |-> m.ev, exc |-> m.exc,
              ret |-> m.ret, run0 |-> run[e], open0 |-> IsOpen(Self(e, act)),
              cur0 |-> currentLabel]
  /\ UNCHANGED <<cfg, insts, ts_order, agent>>

RECURSIVE RowCount(_, _)
RowCount(f, D) == IF D = {} THEN 0
                  ELSE LET n == CHOOSE x \in D : TRUE IN Len(f[n]) + RowCount(f, D \ {n})
\* the steps an instance has completed so far, over all its episodes
TotalTaken(e) == RowCount(taken[e], DOMAIN taken[e])

\* (mutant) one intersection is held back for staggered activation
InitialStarterFirst == Len(all_ts_ids) - 1

\* self.ts_starter = len(self.all_ts_ids)
InitialStarter == Len(all_ts_ids)

\* the state after __init__: the probing session is closed again, every
\* controller exists and has observed once, no episode has begun
InitWith(I, C) ==
  /\ cfg \in {c @@ [gymma |-> g] : c \in C, g \in BOOLEAN}
  /\ insts = I
  /\ \E o \in (IF cfg.gymma THEN Orders ELSE {all_ts_ids}) :
        ts_order = [e \in AllEnvs |-> o]
  /\ run = [e \in AllEnvs |-> 0]
  /\ ts_starter = [e \in AllEnvs |-> InitialStarter]
  /\ signal_ids = [e \in AllEnvs |-> <<>>]
  /\ signals = [e \in AllEnvs |-> [ts \in IDs |->
        [NewSignal EXCEPT !.full_observation = [l \in Lanes |-> Sense(ts, l, 0)]]]]
  /\ metrics = [e \in AllEnvs |-> <<>>]
  /\ sumo = [e \in AllEnvs |-> [label |-> "probe", sid |-> 0]]
  /\ files = [e \in AllEnvs |-> <<>>]
  /\ connections = <<>>
  /\ currentLabel = NoLabel
  /\ taken = [e \in AllEnvs |-> <<>>]
  /\ last = [env |-> "none", op |-> "init", act |-> <<>>, ev |-> <<>>, exc |-> "none",
             ret |-> NoRet, run0 |-> 0, open0 |-> FALSE, cur0 |-> NoLabel]

ResetOf(e, maxRun) ==
  /\ run[e] < maxRun
  /\ Store(e, "reset", <<>>, reset(Self(e, <<>>), Label(e), ts_order[e]))
  /\ UNCHANGED taken

StepOf(e, act, maxTotal) ==
  /\ TotalTaken(e) < maxTotal
  /\ LET m == step(Self(e, act), ts_order[e])
     IN /\ Store(e, "step", act, m)
        /\ taken' = IF Ok(m)
                    THEN [taken EXCEPT ![e] = Put(@, run[e],
                            Append(IF run[e] \in DOMAIN @ THEN @[run[e]] ELSE <<>>,
                                   CsvLine(m.metrics[Len(m.metrics)])))]
                    ELSE taken

CloseOf(e) ==
  /\ Store(e, "close", <<>>, close(Self(e, <<>>), Label(e)))
  /\ UNCHANGED taken

Acts == IF cfg.gymma THEN SeqActs ELSE DictActs

\* the entry an action holds for intersection ts, if it holds one
HasEntry(a, order, ts) ==
  IF cfg.gymma THEN \E i \in 1..Len(order) : order[i] = ts /\ i <= Len(a)
  ELSE ts \in DOMAIN a
EntryOf(a, order, ts) ==
  IF cfg.gymma THEN a[CHOOSE i \in 1..Len(order) : order[i] = ts] ELSE a[ts]
\* one phase index per intersection, each within its phase table
IsValidAct(a, order) ==
  \A ts \in IDs : HasEntry(a, order, ts) /\ EntryOf(a, order, ts) < phases[ts]

Init == InitWith({"e1"}, Configs) /\ agent = NoAgent
Reset == \E e \in insts : ResetOf(e, MaxRun)
Step == \E e \in insts : \E act \in Acts : StepOf(e, act, MaxTotal)
Close == \E e \in insts : CloseOf(e)
Next == Reset \/ Step \/ Close
Spec == Init /\ [][Next]_vars

(***************************************************************************)
(* A long run of one instance, past the staggered activation period; only   *)
(* its first episodes are stepped.                                          *)
(***************************************************************************)
LongConfigs == {c \in Configs : c.step_length = 1}
InitLong == InitWith({"e1"}, LongConfigs) /\ agent = NoAgent
ResetLong == \E e \in insts : ResetOf(e, MaxRunLong)
StepLong == \E e \in insts : \E act \in Acts :
              run[e] <= MaxStepRunLong /\ StepOf(e, act, MaxTotalLong)
CloseLong == \E e \in insts : CloseOf(e)
NextLong == ResetLong \/ StepLong \/ CloseLong
SpecLong == InitLong /\ [][NextLong]_vars

(***************************************************************************)
(* Two instances with distinct session labels in one process, their calls   *)
(* interleaved in any order.                                                *)
(***************************************************************************)
TwoConfigs == {c \in Configs : c.step_ratio = 2}
ValidActs == {a \in Acts : IsValidAct(a, ts_order["e1"])}
InitTwo == InitWith(AllEnvs, TwoConfigs) /\ agent = NoAgent
ResetTwo == \E e \in insts : ResetOf(e, MaxRunTwo)
StepTwo == \E e \in insts : \E act \in ValidActs : StepOf(e, act, MaxTotalTwo)
CloseTwo == \E e \in insts : CloseOf(e)
NextTwo == ResetTwo \/ StepTwo \/ CloseTwo
SpecTwo == InitTwo /\ [][NextTwo]_vars

(***************************************************************************)
(* One instance and the two policies: the instance is reset, the policies   *)
(* are asked for actions.                                                   *)
(***************************************************************************)
\* the observations argument; FixedPhaseAgent.act also accepts none
ObsArgs == {Some(o) : o \in ObsLists}
FixedObsArgs == {None, Some(<< <<1, 0, 0, 1>> >>), Some(<< <<2, 0, 1, 1>>, <<1, 0, 0, 1>> >>)}
FixedValidArgs == {None, Some(<< <<1, 0>>, <<>> >>)}
InitAgent ==
  /\ InitWith({"e1"}, LongConfigs)
  /\ ~cfg.gymma
  /\ agent \in {NewAgent(pairs) : pairs \in PairTables}
ResetAgentEnv == \E e \in insts : ResetOf(e, MaxRunAgent)
FixedAct ==
  /\ agent.calls < MaxCalls
  /\ \E observations \in FixedObsArgs : \E valid_acts \in FixedValidArgs :
        agent' = fixed_act(agent, observations, valid_acts)
  /\ UNCHANGED envVars
GraphAct ==
  /\ \E observations \in ObsArgs : \E valid_acts \in ValidOpts :
       LET graph == update_graph_weights(agent.graph, observations.v)
       IN \E cent \in [1..Len(observations.v) -> 0..CentralityUnit] :
            /\ \A i \in 1..Len(observations.v) : cent[i] \in Centralities(graph, i)
            /\ agent' = graph_act(agent, observations, valid_acts, cent)
  /\ UNCHANGED envVars
NextAgent == ResetAgentEnv \/ FixedAct \/ GraphAct
SpecAgent == InitAgent /\ [][NextAgent]_vars

(***************************************************************************)
(* Properties.                                                              *)
(***************************************************************************)
Events(k) == SelectSeq(last.ev, LAMBDA x : x.k = k)
Count(k) == Len(Events(k))
\* number of tick events among last.ev[i..j]
TicksIn(i, j) == Cardinality({p \in i..j : last.ev[p].k = "tick"})
ActiveIds(e) == {signal_ids[e][i] : i \in 1..Len(signal_ids[e])}
ValidStepCall ==
  /\ last.op = "step"
  /\ last.open0
  /\ IsValidAct(last.act, ts_order[last.env])

\* C1: a step given a valid phase index for every active intersection makes,
\* in this order: one latch per controller, yellow_length*step_ratio ticks,
\* one commit per active controller with no tick in between, (step_length -
\* yellow_length)*step_ratio ticks, one observe per active controller; that
\* is step_length*step_ratio ticks in all.
C1_StepOrder ==
  ValidStepCall =>
    LET e == last.env
        n == Len(all_ts_ids)
        a == Len(signal_ids[e])
        Y == cfg.yellow_length * cfg.step_ratio
        G == (cfg.step_length - cfg.yellow_length) * cfg.step_ratio
        ev == last.ev
    IN /\ last.exc = "none"
       /\ Len(ev) = n + Y + a + G + a
       /\ \A i \in 1..n : ev[i].k = "prep" /\ ev[i].ts = all_ts_ids[i]
       /\ \A i \in (n + 1)..(n + Y) : ev[i].k = "tick"
       /\ \A i \in 1..a : /\ ev[n + Y + i].k = "set"
                          /\ ev[n + Y + i].ts = signal_ids[e][i]
                          /\ ev[n + Y + i].v = EntryOf(last.act, ts_order[e], signal_ids[e][i])
       /\ \A i \in (n + Y + a + 1)..(n + Y + a + G) : ev[i].k = "tick"
       /\ \A i \in 1..a : /\ ev[n + Y + a + G + i].k = "observe"
                          /\ ev[n + Y + a + G + i].ts = signal_ids[e][i]
       /\ Count("tick") = cfg.step_length * cfg.step_ratio
       /\ ActiveIds(e) = IDs

C1_Witness ==
  /\ ValidStepCall
  /\ cfg.yellow_length > 0
  /\ cfg.step_ratio > 1
  /\ Count("set") = Len(all_ts_ids)

\* C2: every commit (set_phase) comes, counted from the latch (prep_phase) of
\* the same intersection in the same call, after exactly
\* yellow_length*step_ratio ticks; commits happen in step calls only and an
\* intersection is committed at most once per call, so two commits of one
\* intersection are always separated by a transition interval.
C2_YellowBeforeCommit ==
  LET ev == last.ev
      Y == cfg.yellow_length * cfg.step_ratio
  IN \A j \in 1..Len(ev) :
       ev[j].k = "set" =>
         /\ last.op = "step"
         /\ \E i \in 1..(j - 1) :
              /\ ev[i].k = "prep" /\ ev[i].ts = ev[j].ts /\ ev[i].v = ev[j].v
              /\ \A p \in (i + 1)..(j - 1) : ~(ev[p].k = "prep" /\ ev[p].ts = ev[j].ts)
              /\ TicksIn(i, j) = Y
         /\ \A p \in 1..(j - 1) : ~(ev[p].k = "set" /\ ev[p].ts = ev[j].ts)

C2_Witness ==
  /\ last.op = "step"
  /\ cfg.yellow_length > 0
  /\ \E j \in 1..Len(last.ev) : last.ev[j].k = "set" /\ last.ev[j].v > 0

\* the done flag a step call returned (a one-element list in gymma mode)
DoneOf(ret) == IF cfg.gymma THEN ret.done[1] ELSE ret.done

\* C3: a step returns done = true exactly when the simulated time read after
\* its ticks is at or beyond end_time.
C3_DoneIffEndTime ==
  (last.op = "step" /\ last.exc = "none") =>
    LET e == last.env
        t == connections[Label(e)].time
    IN /\ metrics[e][Len(metrics[e])].step = t
       /\ DoneOf(last.ret) = (t >= cfg.end_time * cfg.unit)
       /\ (t < cfg.end_time * cfg.unit => DoneOf(last.ret) = FALSE)

C3_Witness ==
  /\ last.op = "step" /\ last.exc = "none"
  /\ connections[Label(last.env)].time = cfg.end_time * cfg.unit
  /\ DoneOf(last.ret) = TRUE

C3_WitnessBefore ==
  /\ last.op = "step" /\ last.exc = "none"
  /\ connections[Label(last.env)].time < cfg.end_time * cfg.unit
  /\ DoneOf(last.ret) = FALSE

\* the rows of the steps completed in episode n of instance e
TakenIn(e, n) == IF n \in DOMAIN taken[e] THEN taken[e][n] ELSE <<>>

\* C4: the file of every ended episode n holds exactly the rows of the steps
\* completed in episode n, in order; an episode ended by reset or close has
\* its file; every episode starts with an empty metric sequence.
C4_MetricsPerEpisode ==
  \A e \in insts :
    /\ \A n \in DOMAIN files[e] : n >= 1 /\ n <= run[e] /\ files[e][n] = TakenIn(e, n)
    /\ \A n \in 1..(run[e] - 1) : n \in DOMAIN files[e]
    /\ (last.env = e /\ last.op = "close" /\ last.exc = "none") => run[e] \in DOMAIN files[e]
    /\ (last.env = e /\ last.op = "reset" /\ last.exc = "none") => metrics[e] = <<>>
    /\ Len(metrics[e]) = Len(TakenIn(e, run[e]))

C4_Witness ==
  \E e \in insts :
    /\ 1 \in DOMAIN files[e] /\ Len(files[e][1]) = 2
    /\ 2 \in DOMAIN files[e] /\ Len(files[e][2]) = 1
    /\ last.op = "close"

\* C5: from one episode to the next the active signal set never shrinks,
\* grows by at most one intersection and only into an episode whose index is
\* a multiple of 30 while some intersection was inactive, is a prefix of
\* all_ts_ids, and never holds more than all intersections.
C5_Step ==
  \A e \in insts :
    (run[e] >= 1 /\ run'[e] = run[e] + 1) =>
      /\ Len(signal_ids'[e]) >= Len(signal_ids[e])
      /\ Len(signal_ids'[e]) <= Len(signal_ids[e]) + 1
      /\ ts_starter'[e] >= ts_starter[e]
      /\ ts_starter'[e] <= ts_starter[e] + 1
      /\ (Len(signal_ids'[e]) > Len(signal_ids[e]) \/ ts_starter'[e] > ts_starter[e]) =>
            (run'[e] % StaggerPeriod = 0 /\ ts_starter[e] < Len(all_ts_ids))
      /\ signal_ids'[e] = SubSeq(all_ts_ids, 1, Len(signal_ids'[e]))
C5_Bounded ==
  \A e \in insts :
    /\ ts_starter[e] <= Len(all_ts_ids)
    /\ Len(signal_ids[e]) <= Len(all_ts_ids)
    /\ run[e] >= 1 => Len(signal_ids[e]) = ts_starter[e]
C5_StaggerMonotonic == []C5_Bounded /\ [][C5_Step]_vars

C5_Witness ==
  /\ last.op = "reset" /\ last.exc = "none"
  /\ run[last.env] = StaggerPeriod
  /\ Len(signal_ids[last.env]) = Len(all_ts_ids)

\* an entry of the action is no index of its intersection's phase table
HasInvalidIndex(a, order) ==
  \E ts \in IDs : HasEntry(a, order, ts) /\ EntryOf(a, order, ts) >= phases[ts]
\* the action has no entry for some intersection
LacksEntry(a, order) == \E ts \in IDs : ~HasEntry(a, order, ts)

C7_MissingEntryRaises ==
  (last.op = "step" /\ LacksEntry(last.act, ts_order[last.env])) =>
     /\ last.exc \in {"KeyError", "IndexError", "ProtocolError"}
     /\ Count("set") = 0
     /\ Count("tick") = 0
     /\ \A j \in 1..Len(last.ev) :
          last.ev[j].k = "prep" => HasEntry(last.act, ts_order[last.env], last.ev[j].ts)

C7_Witness ==
  /\ last.op = "step" /\ last.open0 /\ ~cfg.gymma
  /\ DOMAIN last.act = {all_ts_ids[1]}
  /\ last.exc = "KeyError"
  /\ Count("prep") = 1

C7_WitnessSeq ==
  /\ last.op = "step" /\ last.open0 /\ cfg.gymma
  /\ Len(last.act) = Len(all_ts_ids) - 1
  /\ last.exc = "IndexError"

\* C8: in gymma mode reset and step return lists of length len(ts_order)
\* whose i-th entry is the observation (reward) of intersection ts_order[i],
\* step hands act[i] to intersection ts_order[i], ts_order never changes, and
\* the conversions through ts_order round-trip.
C8_Lists ==
  LET e == last.env
      order == ts_order[e]
  IN (cfg.gymma /\ last.op \in {"reset", "step"}) =>
       /\ last.exc = "none" =>
            /\ Len(last.ret.obs) = Len(order)
            /\ \A i \in 1..Len(order) : last.ret.obs[i] = state_fn(signals[e])[order[i]]
            /\ to_dict(last.ret.obs, order) = state_fn(signals[e])
            /\ last.op = "step" =>
                 /\ Len(last.ret.rew) = Len(order)
                 /\ \A i \in 1..Len(order) :
                      last.ret.rew[i] = reward_fn(signals[e])[order[i]]
                 /\ to_dict(last.ret.rew, order) = reward_fn(signals[e])
       /\ last.op = "step" =>
            /\ \A j \in 1..Len(last.ev) :
                 last.ev[j].k = "prep" =>
                   \E i \in 1..Len(order) :
                     order[i] = last.ev[j].ts /\ last.act[i] = last.ev[j].v
            /\ Len(last.act) = Len(order) =>
                 to_list(to_dict(last.act, order), order) = last.act
C8_OrderFixed == ts_order' = ts_order
C8_SequenceConvention == []C8_Lists /\ [][C8_OrderFixed]_vars

C8_Witness ==
  /\ cfg.gymma /\ last.op = "step" /\ last.exc = "none"
  /\ ts_order[last.env] # all_ts_ids
  /\ last.act[1] # last.act[2]
  /\ last.ret.obs[1] # last.ret.obs[2]

\* C9: with no warmup and one time unit per decision tick, the simulated time
\* after the k-th step of an episode is k*step_length, and the k-th step
\* returns done exactly when k >= ceil(end_time/step_length).
C9_ElapsedAndDone ==
  (cfg.warmup = 0 /\ cfg.step_ratio * cfg.tick = cfg.unit) =>
    \A e \in insts :
      LET k == Len(metrics[e])
          first == (cfg.end_time + cfg.step_length - 1) \div cfg.step_length
      IN /\ Label(e) \in DOMAIN connections =>
              connections[Label(e)].time = k * cfg.step_length * cfg.unit
         /\ (last.env = e /\ last.op = "step" /\ last.exc = "none") =>
              /\ k >= 1
              /\ metrics[e][k].step = k * cfg.step_length * cfg.unit
              /\ DoneOf(last.ret) = (k >= first)
         /\ \A i \in 1..k : metrics[e][i].step = i * cfg.step_length * cfg.unit

C9_Witness ==
  /\ cfg.step_length = 10 /\ cfg.yellow_length = 4 /\ cfg.end_time = 20
  /\ cfg.warmup = 0
  /\ last.op = "step" /\ last.exc = "none"
  /\ Len(metrics[last.env]) = 2
  /\ metrics[last.env][1].step = 10
  /\ connections[Label(last.env)].time = 20
  /\ DoneOf(last.ret) = TRUE

C9_WitnessFirstStep ==
  /\ cfg.step_length = 10 /\ cfg.end_time = 20
  /\ last.op = "step" /\ last.exc = "none"
  /\ Len(metrics[last.env]) = 1
  /\ connections[Label(last.env)].time = 10
  /\ DoneOf(last.ret) = FALSE

\* C10: with two instances under distinct labels, a call of one instance
\* closes and advances only that instance's own session, and switches the
\* current session to its own label immediately before every close.
C10_Call ==
  LET e == last'.env
      ev == last'.ev
  IN /\ \A j \in 1..Len(ev) :
          /\ ev[j].k \in {"close", "tick", "start", "switch"} => ev[j].ts = Label(e)
          /\ ev[j].k = "close" =>
               j > 1 /\ ev[j - 1].k = "switch" /\ ev[j - 1].ts = Label(e)
     /\ \A l \in DOMAIN connections :
          l # Label(e) => l \in DOMAIN connections' /\ connections'[l] = connections[l]
     /\ \A l \in DOMAIN connections' :
          l # Label(e) => l \in DOMAIN connections
C10_OwnSessionOnly == [][C10_Call]_vars

C10_Witness ==
  /\ last.op \in {"reset", "close"} /\ last.exc = "none"
  /\ last.cur0 # Label(last.env) /\ last.cur0 # NoLabel
  /\ Count("close") = 1
  /\ last.cur0 \in DOMAIN connections

C10_WitnessTick ==
  /\ last.op = "step" /\ last.exc = "none"
  /\ last.cur0 # Label(last.env) /\ last.cur0 # NoLabel
  /\ Count("tick") > 0

\* C11: close() in the middle of an episode writes the episode's rows to its
\* file before it closes the simulator session.
C11_FlushBeforeClose ==
  (last.op = "close" /\ last.open0 /\ last.run0 >= 1) =>
    /\ Count("save") = 1
    /\ \A j \in 1..Len(last.ev) :
         last.ev[j].k = "close" => \E i \in 1..(j - 1) : last.ev[i].k = "save"

\* C12: the reset() that follows a close() succeeds as a fresh reset: it does
\* not close the closed session again, opens a new session, advances the
\* episode index by one and starts with an empty metric sequence.
C12_ResetAfterClose ==
  (last.op = "reset" /\ last.run0 >= 1 /\ ~last.open0) =>
    /\ last.exc = "none"
    /\ Count("close") = 0
    /\ Count("start") = 1
    /\ run[last.env] = last.run0 + 1
    /\ metrics[last.env] = <<>>

\* a step of the running episode of e has returned done = true
DoneReturned(e) ==
  /\ Len(metrics[e]) >= 1
  /\ metrics[e][Len(metrics[e])].step >= cfg.end_time * cfg.unit

\* C13: after a step has returned done = true, no later step call advances
\* simulator ticks, commits phases or appends a StepMetric before a reset.
C13_NoStepAfterDone ==
  \A e \in insts :
    (DoneReturned(e) /\ last'.op = "step" /\ last'.env = e) =>
       /\ connections' = connections
       /\ metrics' = metrics
       /\ \A j \in 1..Len(last'.ev) : last'.ev[j].k \notin {"tick", "set"}
C13_DoneTerminal == [][C13_NoStepAfterDone]_vars

\* C14: the episode index is 0 after construction, every successful reset
\* adds exactly 1, step and close leave it alone, and every step reports it.
C14_Start == \A e \in AllEnvs : run[e] = 0
C14_Call ==
  LET e == last'.env
  IN /\ \A o \in AllEnvs : o # e => run'[o] = run[o]
     /\ (last'.op = "reset" /\ last'.exc = "none") => run'[e] = run[e] + 1
     /\ (last'.op = "reset" /\ last'.exc # "none") => run'[e] = run[e]
     /\ last'.op \in {"step", "close"} => run'[e] = run[e]
     /\ (last'.op = "step" /\ last'.exc = "none") =>
          /\ last'.ret.eps = run[e]
          /\ run[e] >= 1
C14_EpisodeIndex == C14_Start /\ [][C14_Call]_vars

C14_Witness ==
  /\ last.op = "step" /\ last.exc = "none"
  /\ last.ret.eps = 2
  /\ run[last.env] = 2

\* the intersections named by the events of kind k of the last call
EventIds(k) == {Events(k)[i].ts : i \in 1..Count(k)}

\* C15: in every reset and every step the controller mapping handed to the
\* observation and reward functions has exactly the active signal set as its
\* keys; the same set is latched, committed and observed in the step, and no
\* other intersection appears in a returned observation or reward.
C15_SameActiveSet ==
  (last.op \in {"reset", "step"} /\ last.exc = "none") =>
    LET e == last.env
        A == ActiveIds(e)
        order == ts_order[e]
    IN /\ DOMAIN signals[e] = A
       /\ EventIds("observe") = A
       /\ last.op = "step" => EventIds("prep") = A /\ EventIds("set") = A
       /\ IF cfg.gymma
          THEN /\ Len(last.ret.obs) = Cardinality(A)
               /\ \A i \in 1..Len(last.ret.obs) :
                    order[i] \in A /\ last.ret.obs[i] = state_fn(signals[e])[order[i]]
               /\ last.op = "step" =>
                    /\ Len(last.ret.rew) = Cardinality(A)
                    /\ \A i \in 1..Len(last.ret.rew) :
                         last.ret.rew[i] = reward_fn(signals[e])[order[i]]
          ELSE /\ DOMAIN last.ret.obs = A
               /\ last.op = "step" => DOMAIN last.ret.rew = A

C15_Witness ==
  /\ last.op = "step" /\ last.exc = "none" /\ ~cfg.gymma
  /\ ActiveIds(last.env) = IDs
  /\ EventIds("set") = IDs
  /\ DOMAIN last.ret.rew = IDs

\* C19: ts_starter equals len(all_ts_ids) in every reachable state, so the
\* every-30th-episode increment never fires and the active signal set of every
\* episode, the first included, is the complete list of intersections.
C19_AllActive ==
  \A e \in insts :
    /\ ts_starter[e] = Len(all_ts_ids)
    /\ reset_ts_starter(run[e], ts_starter[e]) = ts_starter[e]
    /\ run[e] >= 1 => signal_ids[e] = all_ts_ids
    /\ (last.op = "reset" /\ last.env = e /\ last.exc = "none") =>
          signal_ids[e] = all_ts_ids

C19_Witness ==
  /\ last.op = "reset" /\ last.exc = "none"
  /\ last.run0 = StaggerPeriod - 1
  /\ run[last.env] % StaggerPeriod = 0
  /\ ts_starter[last.env] = Len(all_ts_ids)
  /\ signal_ids[last.env] = all_ts_ids

\* C20: a step whose action lacks an entry for some intersection leaves the
\* simulated time, the metric sequence, the episode index and the active
\* signal set unchanged, and the reset that follows it writes exactly the rows
\* of the steps completed before the failure.
C20_FailedStep ==
  LET e == last'.env
  IN (last'.op = "step" /\ LacksEntry(last'.act, ts_order[e])) =>
        /\ last'.exc \in {"KeyError", "IndexError", "ProtocolError"}
        /\ connections' = connections
        /\ metrics' = metrics
        /\ run' = run
        /\ signal_ids' = signal_ids
        /\ ts_starter' = ts_starter
        /\ files' = files
        /\ \A j \in 1..Len(last'.ev) : last'.ev[j].k \notin {"tick", "set"}
C20_ResetAfter ==
  LET e == last.env
  IN (/\ last.op = "step" /\ LacksEntry(last.act, ts_order[e]) /\ last.open0
      /\ last'.op = "reset" /\ last'.env = e) =>
        /\ Len(SelectSeq(last'.ev, LAMBDA x : x.k = "save")) = 1
        /\ files'[e][run[e]] = TakenIn(e, run[e])
        /\ files'[e][run[e]] = [i \in 1..Len(metrics[e]) |-> CsvLine(metrics[e][i])]
C20_FailedStepFrame == [][C20_FailedStep /\ C20_ResetAfter]_vars

C20_Witness ==
  /\ last.op = "step" /\ last.open0
  /\ LacksEntry(last.act, ts_order[last.env])
  /\ last.exc \in {"KeyError", "IndexError"}
  /\ Len(metrics[last.env]) >= 1
  /\ Count("tick") = 0

\* C16: every policy act call returns exactly one phase index per active
\* intersection, each within the phase table of the intersection it is for.
C16_OnePerIntersection ==
  \A e \in insts :
    (/\ agent.op \in {"fixed", "graph"} /\ agent.exc = "none"
     /\ run[e] >= 1
     /\ agent.observations.given =>
          Len(agent.observations.v) = Len(signal_ids[e])) =>
      /\ Len(agent.out) = Len(signal_ids[e])
      /\ \A i \in 1..Len(agent.out) :
           i <= Len(signal_ids[e]) =>
             agent.out[i] \in 0..(phases[signal_ids[e][i]] - 1)

\* C17: the k-th call of FixedPhaseAgent.act (k = 0, 1, ...) returns a list
\* whose entries all equal k mod n, n = len(phase_pairs), whatever arguments
\* it is given; current_phase stays in [0, n); any n consecutive calls emit
\* every phase index exactly once.
C17_RoundRobin ==
  LET n == Len(agent.phase_pairs)
      calls == Len(agent.hist)
  IN n > 0 =>
       /\ agent.current_phase \in 0..(n - 1)
       /\ agent.current_phase = calls % n
       /\ calls = agent.calls
       /\ \A k \in 1..calls : agent.hist[k] = [i \in 1..n |-> (k - 1) % n]
       /\ agent.op = "fixed" => agent.out = agent.hist[calls]
       /\ \A s \in 1..(calls - n + 1) : \A p \in 0..(n - 1) :
            Cardinality({k \in s..(s + n - 1) : agent.hist[k][1] = p}) = 1

C17_Witness ==
  /\ agent.op = "fixed"
  /\ Len(agent.phase_pairs) = 3
  /\ agent.calls = 4
  /\ agent.out = <<0, 0, 0>>
  /\ agent.observations.given /\ agent.valid_acts.given

\* C18: GraphSolverAgent.act returns one action per observation: for
\* intersection i the available action whose phase pair has the highest
\* score (observation[pair[0]] + observation[pair[1]]) * (1 + centrality_i),
\* the earliest such action on ties, and 0 when no action is available.
C18_BestAction ==
  (agent.op = "graph" /\ agent.exc = "none") =>
    LET observations == agent.observations.v
    IN /\ Len(agent.out) = Len(observations)
       /\ \A i \in 1..Len(observations) :
            LET avail == available_acts(agent.phase_pairs, agent.valid_acts, i)
                Sc(k) == score(observations[i], agent.phase_pairs[avail[k] + 1],
                               agent.centrality[i])
            IN IF Len(avail) = 0 THEN agent.out[i] = 0
               ELSE \E j \in 1..Len(avail) :
                      /\ agent.out[i] = avail[j]
                      /\ \A k \in 1..Len(avail) : Sc(k) <= Sc(j)
                      /\ \A k \in 1..(j - 1) : Sc(k) < Sc(j)

C18_Witness ==
  /\ agent.op = "graph" /\ agent.exc = "none"
  /\ agent.observations = Some(<< <<2, 0, 1, 1>>, <<1, 0, 0, 1>> >>)
  /\ agent.valid_acts = Some(<< <<1, 0>>, <<>> >>)
  /\ agent.out = <<1, 0>>

\* the centrality changes no choice, but it is not always 0
C18_WitnessCentral ==
  /\ agent.op = "graph" /\ agent.exc = "none"
  /\ \E i \in 1..Len(agent.centrality) : agent.centrality[i] > 0
  /\ ~agent.valid_acts.given
  /\ agent.out = <<0, 0>>

====
